---- MODULE Spec2Model ----
(***************************************************************************)
(* A model of attending/library.py: the Library class (the documentation   *)
(* cache keyed by <home>/.attending/<name>/<version>) and the fetch entry  *)
(* points built on it.                                                     *)
(*                                                                         *)
(* The file system is the set `dirs` of existing directories.  A path is a *)
(* tuple: <<h>> is the cache root h/.attending, <<h, n>> is the package    *)
(* directory and <<h, n, v>> the edition directory.  `pop` is the set of   *)
(* edition directories the download collaborator has populated.            *)
(*                                                                         *)
(* Every handler is an operator from a store st = [dirs, pop, calls] to a  *)
(* return record [st, result, handle, url, version]; result is "ok" or the *)
(* name of the exception that left the handler.  Spec runs the handlers    *)
(* one call at a time; SpecRace interleaves the steps of two processes     *)
(* that both run Library.fetch against one cache root.                     *)
(***************************************************************************)
EXTENDS Integers, Sequences, FiniteSets, TLC

VARIABLES dirs, pop, fetched, last, nops,
          rdirs, rpop, pc, target, ic, dl, err, late

vars == <<dirs, pop, fetched, last, nops,
          rdirs, rpop, pc, target, ic, dl, err, late>>

seqVars == <<dirs, pop, fetched, last, nops>>
raceVars == <<rdirs, rpop, pc, target, ic, dl, err, late>>

(* ------------------------------------------------------------------ *)
(* The bounded universe                                                *)
(* ------------------------------------------------------------------ *)

\* Number of handler calls in one behaviour of Spec.
MaxOps == 2

\* Python's None, for an absent url, version or attribute.
None == "None"

\* Path().home(), the value every home= default argument is bound to.
DefaultHome == "user"
Homes == {"user", "tmp"}

\* "declared": importable, has __doc_url__ and __version__ = "1.0"
\* "plain":    importable, no __doc_url__, the fallback resolver knows a URL
\* "orphan":   importable, no __doc_url__, the fallback resolver knows nothing
\* "remote":   not importable, the fallback resolver knows a URL
\* "unknown":  not importable, the fallback resolver knows nothing
Names == {"declared", "plain", "orphan", "remote", "unknown"}
Importable == {"declared", "plain", "orphan"}
Versions == {"1.0", "latest"}
GivenUrls == {"http://given"}

NoHandle == <<>>
NoIndex == [exists |-> FALSE, map |-> <<>>]

\* The module object importlib.import_module(name) returns.
import_module(name) ==
    [isModule |-> TRUE, name |-> name,
     doc_url |-> IF name = "declared" THEN "http://decl" ELSE None,
     version |-> IF name = "declared" THEN "1.0" ELSE None]

\* A bare package name passed where a module may be passed.
Str(name) == [isModule |-> FALSE, name |-> name, doc_url |-> None, version |-> None]

Modules == {import_module(n) : n \in Importable}

\* pkg_resources.working_set.by_key[name].version; None stands for KeyError.
Registry(name) == IF name = "plain" THEN "1.0" ELSE None

\* fallback.get_doc_url
get_doc_url(name) == IF name \in {"declared", "plain", "remote"} THEN "http://fallback" ELSE None

\* index.load_attending_index, the baked-in name -> URL table.
load_attending_index == ("remote" :> "http://a") @@ ("plain" :> "http://a")

\* What the user may have put in <home>/.attending/index.csv: no file, or a
\* file that names a package of the baked-in table and one that is not in it.
LocalUrl(h) == IF h = DefaultHome THEN "http://c" ELSE "http://b"
LocalIndexChoices(h) ==
    {NoIndex, [exists |-> TRUE, map |-> ("remote" :> LocalUrl(h)) @@ ("unknown" :> LocalUrl(h))]}
IndexFiles == {f \in [Homes -> UNION {LocalIndexChoices(h) : h \in Homes}] :
                 \A h \in Homes : f[h] \in LocalIndexChoices(h)}

(* ------------------------------------------------------------------ *)
(* Paths and the return record                                         *)
(* ------------------------------------------------------------------ *)

\* A path and all its ancestors up to the cache root.
Parents(path) == {SubSeq(path, 1, k) : k \in 1..Len(path)}

\* Path.mkdir(parents=True): FileExistsError when the path exists.
\* Path.mkdir(parents=True, exist_ok=True)
mkdir_exist_ok(d, path) == [d |-> d \cup Parents(path), result |-> "ok"]

mkdir(d, path) == IF path \in d THEN [d |-> d, result |-> "FileExistsError"]
                  ELSE [d |-> d \cup Parents(path), result |-> "ok"]

Ret(st, result, handle, url, version) ==
    [st |-> st, result |-> result, handle |-> handle, url |-> url, version |-> version]

(* ------------------------------------------------------------------ *)
(* Collaborators that live outside library.py                          *)
(* ------------------------------------------------------------------ *)

\* downloader.write_to_file(location, name, version, url).  Every invocation is
\* logged with the URL it was given and whether the destination was present.
\* ok = TRUE: the destination is created if need be and populated.
\* ok = FALSE: the download raises and the directories stay as they were.
write_to_file(st, h, n, v, url, ok) ==
    LET dest == <<h, n, v>>
        log == Append(st.calls, [dest |-> dest, url |-> url, present |-> dest \in st.dirs])
    IN IF ok
       THEN Ret([dirs |-> st.dirs \cup Parents(dest), pop |-> st.pop \cup {dest}, calls |-> log],
                "ok", NoHandle, url, v)
       ELSE Ret([st EXCEPT !.calls = log], "DownloadError", NoHandle, url, v)

\* doc.Module(location, name)[version].retire(): the edition directory and
\* what it holds are removed.
Edition_retire(st, handle) ==
    [st EXCEPT !.dirs = @ \ {handle}, !.pop = @ \ {handle}]

(* ------------------------------------------------------------------ *)
(* library.py                                                          *)
(* ------------------------------------------------------------------ *)

get_module_version(module) ==
    IF module.isModule /\ module.version # None THEN module.version
    ELSE IF Registry(module.name) # None THEN Registry(module.name)
    ELSE "latest"

can_monitor(module) == module.isModule /\ module.doc_url # None

\* options_exhausted takes one parameter; nargs is the number of arguments of
\* the call.  Any other number is a TypeError at the call.
options_exhausted(nargs) == IF nargs = 1 THEN "RuntimeError" ELSE "TypeError"

\* Library.__init__
Library(st, home) ==
    IF <<home>> \notin st.dirs THEN [st EXCEPT !.dirs = @ \cup Parents(<<home>>)] ELSE st

\* in_collection without the test of line 73.
in_collection_name_only(d, h, n, v) == <<h, n>> \in d

in_collection(d, h, n, v) ==
    IF <<h, n>> \notin d THEN FALSE ELSE <<h, n, v>> \in d

\* get_edition without the test of lines 76-77.
get_edition_unchecked(st, h, n, v) == Ret(st, "ok", <<h, n, v>>, None, v)

get_edition(st, h, n, v) ==
    IF ~in_collection(st.dirs, h, n, v)
    THEN Ret(st, "KeyError", NoHandle, None, v)
    ELSE Ret(st, "ok", <<h, n, v>>, None, v)

_add_project(st, h, n, v, url, ok) ==
    LET destination == <<h, n, v>>
    IN IF destination \in st.dirs
       THEN Ret(st, "FileExistsError", NoHandle, url, v)
       ELSE LET m == mkdir(st.dirs, destination)
            IN IF m.result # "ok"
               THEN Ret(st, m.result, NoHandle, url, v)
               ELSE write_to_file([st EXCEPT !.dirs = m.d], h, n, v, url, ok)

\* Library.fetch without the test of line 55.
Library_fetch_always_add(st, h, n, v, url, ok) ==
    LET a == _add_project(st, h, n, v, url, ok)
    IN IF a.result # "ok" THEN a
       ELSE [get_edition(a.st, h, n, v) EXCEPT !.url = url]

Library_fetch(st, h, n, v, url, ok) ==
    IF ~in_collection(st.dirs, h, n, v)
    THEN LET a == _add_project(st, h, n, v, url, ok)
         IN IF a.result # "ok" THEN a
            ELSE [get_edition(a.st, h, n, v) EXCEPT !.url = url]
    ELSE [get_edition(st, h, n, v) EXCEPT !.url = url]

Library_retire(st, h, n, v) ==
    LET e == get_edition(st, h, n, v)
    IN IF e.result # "ok" THEN e
       ELSE Ret(Edition_retire(st, e.handle), "ok", NoHandle, None, v)

fetch_via_module(st, module, version, home, ok) ==
    LET lib == Library(st, home)
        mod_name == module.name
        ver == IF version = None THEN get_module_version(module) ELSE version
    IN IF module.doc_url # None
       THEN LET f == Library_fetch(lib, home, mod_name, ver, module.doc_url, ok)
            IN IF f.result # "ok" THEN f
               ELSE [get_edition(f.st, home, mod_name, ver) EXCEPT !.url = f.url]
       ELSE LET url == get_doc_url(mod_name)
                w == write_to_file(lib, home, mod_name, ver, url, ok)
            IN IF w.result # "ok" THEN w
               ELSE [get_edition(w.st, home, mod_name, ver) EXCEPT !.url = url]

fetch_via_name(st, module, version, url, home, ok) ==
    LET lib == Library(st, home)
        ver == IF version = None THEN get_module_version(Str(module)) ELSE version
    IN IF url = None
       THEN IF module \in Importable
            THEN fetch_via_module(lib, import_module(module), ver, DefaultHome, ok)
            ELSE LET fb == get_doc_url(module)
                 IN IF fb = None
                    THEN Ret(lib, options_exhausted(2), NoHandle, None, ver)
                    ELSE Library_fetch(lib, home, module, ver, fb, ok)
       ELSE Library_fetch(lib, home, module, ver, url, ok)

fetch(st, module, version, home, ok) ==
    IF module.isModule
    THEN fetch_via_module(st, module, version, home, ok)
    ELSE fetch_via_name(st, module.name, version, None, home, ok)

\* dict.update
update(index, other) ==
    [k \in DOMAIN index \cup DOMAIN other |->
        IF k \in DOMAIN other THEN other[k] ELSE index[k]]

fetch_via_local_index(st, files, module, home, ok) ==
    LET baked == load_attending_index
        local_index_file == files[DefaultHome]
        index == IF local_index_file.exists THEN update(baked, local_index_file.map) ELSE baked
    IN IF module \in DOMAIN index
       THEN LET f == fetch_via_name(st, module, None, index[module], home, ok)
            IN [f EXCEPT !.handle = NoHandle]
       ELSE Ret(st, "ok", NoHandle, None, None)


(* ------------------------------------------------------------------ *)
(* Spec: one handler call per step                                     *)
(* ------------------------------------------------------------------ *)

Store == [dirs |-> dirs, pop |-> pop, calls |-> <<>>]
NoCall == [op |-> "init", home |-> None, name |-> None, version |-> None, urlArg |-> None,
           result |-> "ok", handle |-> NoHandle, url |-> None, calls |-> <<>>,
           created |-> {}, removed |-> {}, was |-> FALSE, wasIn |-> FALSE,
           again |-> FALSE,
           files |-> [h \in Homes |-> NoIndex]]

Procs == {"p1", "p2"}

RaceIdle ==
    /\ rdirs = {} /\ rpop = {}
    /\ pc = [p \in Procs |-> "idle"]
    /\ target = [p \in Procs |-> None]
    /\ ic = [p \in Procs |-> FALSE]
    /\ dl = [p \in Procs |-> FALSE]
    /\ err = [p \in Procs |-> None]
    /\ late = [p \in Procs |-> FALSE]

\* The cache starts empty.
Init ==
    /\ dirs = {}
    /\ pop = {}
    /\ fetched = {}
    /\ last = NoCall
    /\ nops = 0
    /\ RaceIdle

\* The state after a handler returned R, and the record of the call: the
\* directories it created and removed, whether the edition directory of the
\* pair it was called for existed before, and whether it invoked the download
\* collaborator for a pair already downloaded and not retired since (`fetched`).
Apply(op, h, n, urlArg, files, R) ==
    /\ nops' = nops + 1
    /\ dirs' = R.st.dirs
    /\ pop' = R.st.pop
    /\ fetched' = (fetched \cup {R.st.calls[i].dest : i \in 1..Len(R.st.calls)}) \ (dirs \ R.st.dirs)
    /\ last' = [op |-> op, home |-> h, name |-> n, version |-> R.version, urlArg |-> urlArg,
                result |-> R.result, handle |-> R.handle, url |-> R.url,
                calls |-> R.st.calls,
                created |-> R.st.dirs \ dirs, removed |-> dirs \ R.st.dirs,
                was |-> <<h, n, R.version>> \in dirs,
                wasIn |-> in_collection(dirs, h, n, R.version),
                again |-> \E i \in 1..Len(R.st.calls) : R.st.calls[i].dest \in fetched,
                files |-> files]
    /\ UNCHANGED raceVars

DoLibraryFetch ==
    /\ nops < MaxOps
    /\ \E h \in Homes, n \in Names, v \in Versions, url \in GivenUrls, ok \in BOOLEAN :
        Apply("Library.fetch", h, n, url, NoCall.files, Library_fetch(Library(Store, h), h, n, v, url, ok))

DoLibraryRetire ==
    /\ nops < MaxOps
    /\ \E h \in Homes, n \in Names, v \in Versions :
        Apply("Library.retire", h, n, None, NoCall.files, Library_retire(Library(Store, h), h, n, v))

DoGetEdition ==
    /\ nops < MaxOps
    /\ \E h \in Homes, n \in Names, v \in Versions :
        Apply("Library.get_edition", h, n, None, NoCall.files, get_edition(Library(Store, h), h, n, v))

DoFetch ==
    /\ nops < MaxOps
    /\ \E module \in Modules \cup {Str(n) : n \in Names}, v \in {None, "1.0"},
       h \in Homes, ok \in BOOLEAN :
        Apply("fetch", h, module.name, None, NoCall.files, fetch(Store, module, v, h, ok))

DoFetchViaModule ==
    /\ nops < MaxOps
    /\ \E module \in Modules, v \in {None, "1.0"}, h \in Homes, ok \in BOOLEAN :
        Apply("fetch_via_module", h, module.name, None, NoCall.files, fetch_via_module(Store, module, v, h, ok))

DoFetchViaName ==
    /\ nops < MaxOps
    /\ \E n \in Names, v \in {None, "1.0"}, url \in GivenUrls \cup {None},
       h \in Homes, ok \in BOOLEAN :
        Apply("fetch_via_name", h, n, url, NoCall.files, fetch_via_name(Store, n, v, url, h, ok))

\* The index.csv files are the user's: the call reads them as they are when it
\* is made.  A file can only be there when its cache root is.
DoFetchViaLocalIndex ==
    /\ nops < MaxOps
    /\ \E n \in Names, h \in Homes, ok \in BOOLEAN, files \in IndexFiles :
        /\ \A x \in Homes : files[x].exists => <<x>> \in dirs
        /\ Apply("fetch_via_local_index", h, n, None, files,
                 fetch_via_local_index(Store, files, n, h, ok))

Next ==
    \/ DoLibraryFetch
    \/ DoLibraryRetire
    \/ DoGetEdition
    \/ DoFetch
    \/ DoFetchViaModule
    \/ DoFetchViaName
    \/ DoFetchViaLocalIndex

Spec == Init /\ [][Next]_vars


(* ------------------------------------------------------------------ *)
(* SpecRace: two processes run Library.fetch against one cache root    *)
(* ------------------------------------------------------------------ *)

\* Each process holds its own Library object for the same home and calls
\* fetch(RaceName, v, url) for a version v of its choice.  pc names the line
\* of library.py the process is about to execute.  The directory tests and
\* the directory creation are single system calls, so each is one step.
\* (in_collection makes two is_dir calls; as no step of a fetch removes a
\* directory, their outcome is that of one test made at the time of the second.)
RaceHome == "tmp"
RaceName == "remote"
RaceUrl == "http://given"

RStore == [dirs |-> rdirs, pop |-> rpop, calls |-> <<>>]
Dest(p) == <<RaceHome, RaceName, target[p]>>

\* Both Library objects are constructed: the cache root exists.  No edition
\* is cached; the package directory may be there already.
InitRace ==
    /\ dirs = {} /\ pop = {} /\ fetched = {} /\ last = NoCall /\ nops = 0
    /\ rdirs \in {{<<RaceHome>>}, {<<RaceHome>>, <<RaceHome, RaceName>>}}
    /\ rpop = {}
    /\ pc = [p \in Procs |-> "idle"]
    /\ target = [p \in Procs |-> None]
    /\ ic = [p \in Procs |-> FALSE]
    /\ dl = [p \in Procs |-> FALSE]
    /\ err = [p \in Procs |-> None]
    /\ late = [p \in Procs |-> FALSE]

Finish(p, result) ==
    /\ pc' = [pc EXCEPT ![p] = "done"]
    /\ err' = [err EXCEPT ![p] = result]

\* The call Library.fetch(name, version, url) is made.
Call(p) ==
    /\ pc[p] = "idle"
    /\ \E v \in Versions : target' = [target EXCEPT ![p] = v]
    /\ pc' = [pc EXCEPT ![p] = "fetch_55"]
    /\ UNCHANGED <<seqVars, rdirs, rpop, ic, dl, err, late>>

\* line 55: if not self.in_collection(name, version)
FetchInCollection(p) ==
    /\ pc[p] = "fetch_55"
    /\ ic' = [ic EXCEPT ![p] = in_collection(rdirs, RaceHome, RaceName, target[p])]
    /\ pc' = [pc EXCEPT ![p] = IF ic'[p] THEN "fetch_57" ELSE "add_61"]
    /\ UNCHANGED <<seqVars, rdirs, rpop, target, dl, err, late>>

\* lines 61-62: if destination.exists(): raise FileExistsError
AddProjectExists(p) ==
    /\ pc[p] = "add_61"
    /\ late' = [late EXCEPT ![p] = @ \/ Dest(p) \in rdirs]
    /\ IF Dest(p) \in rdirs
       THEN Finish(p, "FileExistsError")
       ELSE pc' = [pc EXCEPT ![p] = "add_63"] /\ err' = err
    /\ UNCHANGED <<seqVars, rdirs, rpop, target, ic, dl>>

\* line 63: destination.mkdir(parents=True)
AddProjectMkdir(p) ==
    /\ pc[p] = "add_63"
    /\ late' = [late EXCEPT ![p] = @ \/ Dest(p) \in rdirs]
    /\ LET m == mkdir(rdirs, Dest(p))
       IN /\ rdirs' = m.d
          /\ IF m.result # "ok"
             THEN Finish(p, m.result)
             ELSE pc' = [pc EXCEPT ![p] = "add_64"] /\ err' = err
    /\ UNCHANGED <<seqVars, rpop, target, ic, dl>>

\* line 64: write_to_file(self.location, name, version, url)
AddProjectDownload(p) ==
    /\ pc[p] = "add_64"
    /\ dl' = [dl EXCEPT ![p] = TRUE]
    /\ \E ok \in BOOLEAN :
        LET w == write_to_file(RStore, RaceHome, RaceName, target[p], RaceUrl, ok)
        IN /\ rdirs' = w.st.dirs
           /\ rpop' = w.st.pop
           /\ IF w.result # "ok"
              THEN Finish(p, w.result)
              ELSE pc' = [pc EXCEPT ![p] = "fetch_57"] /\ err' = err
    /\ UNCHANGED <<seqVars, target, ic, late>>

\* line 57: return self.get_edition(name, version)
FetchGetEdition(p) ==
    /\ pc[p] = "fetch_57"
    /\ Finish(p, get_edition(RStore, RaceHome, RaceName, target[p]).result)
    /\ UNCHANGED <<seqVars, rdirs, rpop, target, ic, dl, late>>

NextRace ==
    \/ \E p \in Procs : Call(p)
    \/ \E p \in Procs : FetchInCollection(p)
    \/ \E p \in Procs : AddProjectExists(p)
    \/ \E p \in Procs : AddProjectMkdir(p)
    \/ \E p \in Procs : AddProjectDownload(p)
    \/ \E p \in Procs : FetchGetEdition(p)

SpecRace == InitRace /\ [][NextRace]_vars


(* ------------------------------------------------------------------ *)
(* Properties                                                          *)
(* ------------------------------------------------------------------ *)

LastPair == <<last.home, last.name, last.version>>
Editions(paths) == {p \in paths : Len(p) = 3}
FetchOps == {"Library.fetch", "fetch", "fetch_via_module", "fetch_via_name",
             "fetch_via_local_index"}

\* C1: when the edition directory of a pair is absent, in_collection is false
\* before Library.fetch for that pair, and after a fetch that returned a handle
\* the directory exists and in_collection is true, whatever was cached before.
C1_FetchAddsToCollection ==
    (last.op = "Library.fetch" /\ ~last.was) =>
        /\ ~last.wasIn
        /\ last.result = "ok" =>
              /\ LastPair \in dirs
              /\ in_collection(dirs, last.home, last.name, last.version)

\* A fetch of an uncached version succeeded while another version of the same
\* package was already cached.
C1_Witness ==
    /\ last.op = "Library.fetch" /\ ~last.was /\ last.result = "ok"
    /\ LastPair \in last.created
    /\ \E v \in Versions : v # last.version /\ <<last.home, last.name, v>> \in dirs \ last.created

\* C2: Library.fetch for a pair that is already cached does not invoke the
\* download collaborator, creates nothing, and returns the handle of that pair.
C2_FetchIdempotent ==
    (last.op = "Library.fetch" /\ last.was) =>
        /\ last.calls = <<>>
        /\ last.created = {} /\ last.removed = {}
        /\ last.result = "ok"
        /\ last.handle = LastPair

\* The second Library.fetch of a pair an earlier fetch downloaded.
C2_Witness ==
    /\ last.op = "Library.fetch" /\ last.was /\ last.result = "ok"
    /\ LastPair \in fetched /\ LastPair \in pop
    /\ nops = 2

\* C3: get_edition raises KeyError exactly when the pair is not in the
\* collection and returns the pair's handle otherwise; retire of a cached pair
\* removes its edition directory, so that in_collection is false and
\* get_edition raises KeyError again.
C3_GetEditionAndRetire ==
    /\ last.op = "Library.get_edition" =>
          /\ last.result = (IF last.was THEN "ok" ELSE "KeyError")
          /\ last.handle = (IF last.was THEN LastPair ELSE NoHandle)
    /\ last.op = "Library.retire" =>
          /\ last.result = (IF last.was THEN "ok" ELSE "KeyError")
          /\ LastPair \notin dirs
          /\ ~in_collection(dirs, last.home, last.name, last.version)
          /\ get_edition(Store, last.home, last.name, last.version).result = "KeyError"

\* A pair that was fetched has just been retired.
C3_Witness ==
    /\ last.op = "Library.retire" /\ last.was /\ last.result = "ok"
    /\ last.removed = {LastPair}
    /\ nops = 2

\* C4: fetch_via_name without a URL, for a name that cannot be imported and that
\* the fallback resolver does not know, fails with the RuntimeError of
\* options_exhausted and creates no edition directory.
C4_ExhaustedOptions ==
    (/\ last.op = "fetch_via_name" /\ last.urlArg = None
     /\ last.name \notin Importable /\ get_doc_url(last.name) = None) =>
        /\ last.result = "RuntimeError"
        /\ Editions(last.created) = {}
        /\ last.calls = <<>>

\* C5: no fetch entry point invokes the download collaborator for a pair that
\* was downloaded before and not retired since, nor on a destination directory
\* that existed before the call.
C5_DownloadAtMostOnce ==
    (last.op \in FetchOps) =>
        /\ ~last.again
        /\ \A i \in 1..Len(last.calls) :
              last.calls[i].present => last.calls[i].dest \in last.created

\* C6: fetch_via_module for a module without __doc_url__ whose name the fallback
\* resolver does not know fails with the RuntimeError of options_exhausted,
\* does not invoke the download collaborator and creates no edition directory.
C6_AbsentFallbackIsFailure ==
    (/\ last.op = "fetch_via_module"
     /\ import_module(last.name).doc_url = None /\ get_doc_url(last.name) = None) =>
        /\ last.result = "RuntimeError"
        /\ last.calls = <<>>
        /\ Editions(last.created) = {}

\* The URL the claim expects fetch_via_local_index(name, home) to fetch with:
\* that of <home>/.attending/index.csv when the file defines the name, else
\* that of the baked-in index, else none.
ExpectedIndexUrl(files, home, name) ==
    IF files[home].exists /\ name \in DOMAIN files[home].map THEN files[home].map[name]
    ELSE IF name \in DOMAIN load_attending_index THEN load_attending_index[name]
    ELSE None

\* C7: fetch_via_local_index(name, home) fetches with the URL of the index.csv
\* of the given home when that file defines the name, else with the URL of the
\* baked-in index, and fetches nothing when neither defines the name.
C7_LocalIndexOverrides ==
    (last.op = "fetch_via_local_index") =>
        LET u == ExpectedIndexUrl(last.files, last.home, last.name)
        IN /\ last.url = u
           /\ u = None => (last.calls = <<>> /\ Editions(last.created) = {})

\* C8: when the download collaborator raises during Library.fetch, the pair is
\* not in the collection afterwards and a later Library.fetch of the pair
\* invokes the download collaborator again.
C8_NoPartialSuccess ==
    (last.op = "Library.fetch" /\ last.result = "DownloadError") =>
        /\ ~in_collection(dirs, last.home, last.name, last.version)
        /\ Len(Library_fetch(Store, last.home, last.name, last.version, last.url, TRUE).st.calls) = 1

\* C9: fetch, fetch_via_name and fetch_via_module called with home H create,
\* download and look up only under H; every other home is left as it was.
C9_OnlyGivenHome ==
    (last.op \in {"fetch", "fetch_via_name", "fetch_via_module"}) =>
        /\ \A p \in last.created \cup last.removed : p[1] = last.home
        /\ \A i \in 1..Len(last.calls) : last.calls[i].dest[1] = last.home
        /\ last.handle # NoHandle => last.handle[1] = last.home

\* C10: of two processes that run Library.fetch for the same pair, uncached
\* when they began, at most one invokes the download collaborator; and a
\* process that makes the destination-exists test or the directory creation
\* when the destination is already there ends with FileExistsError and never
\* invokes the download collaborator.
C10_RaceIsConflict ==
    /\ (\A p, q \in Procs : p # q /\ target[p] = target[q] => ~(dl[p] /\ dl[q]))
    /\ \A p \in Procs : late[p] => (pc[p] = "done" /\ err[p] = "FileExistsError" /\ ~dl[p])

\* Both processes fetched the same pair; one downloaded it and the other came
\* to the directory creation too late and failed with FileExistsError.
C10_Witness ==
    \E p, q \in Procs :
        /\ p # q /\ target[p] = target[q]
        /\ dl[p] /\ late[q] /\ err[q] = "FileExistsError"
        /\ pc[p] = "done" /\ err[p] = "ok"


====
